---- MODULE Spec2Model ----
(***************************************************************************)
(* Model of the ProGantt scheduler: the date helpers (utils/dateHelpers),  *)
(* reIndexItems, and the App component's handlers that edit the active     *)
(* project's item list and its undo/redo history.                          *)
(*                                                                         *)
(* Representation                                                          *)
(*   date string  "yyyy-MM-dd"  : <<y, m, d>>;  the empty string : << >>   *)
(*   Date object                : <<n>> (n = days since EpochYear-01-01),  *)
(*                                Invalid Date : << >>                     *)
(*   tId "p.k" : <<p, k>>;  "-1" : <<-1>>;  "p.new" : <<p, 0>>             *)
(*   a number typed by the user : <<n>>; a non-numeric value (NaN) : << >> *)
(***************************************************************************)
EXTENDS Integers, Sequences, FiniteSets, TLC

\* ------------------------------------------------------------------------
\* Small arithmetic helpers (Math.max / Math.min)
\* ------------------------------------------------------------------------
Max(a, b) == IF a >= b THEN a ELSE b

Min(a, b) == IF a <= b THEN a ELSE b

\* ------------------------------------------------------------------------
\* Calendar: what date-fns parseISO / format('yyyy-MM-dd') / addDays /
\* differenceInDays do on local-midnight dates
\* ------------------------------------------------------------------------
EpochYear == 2024

IsLeap(y) == (y % 4 = 0 /\ y % 100 # 0) \/ y % 400 = 0

DaysInMonth(y, m) ==
  IF m = 2 THEN (IF IsLeap(y) THEN 29 ELSE 28)
  ELSE IF m \in {4, 6, 9, 11} THEN 30 ELSE 31

DaysInYear(y) == IF IsLeap(y) THEN 366 ELSE 365

RECURSIVE DaysBeforeMonth(_, _)
DaysBeforeMonth(y, m) ==
  IF m <= 1 THEN 0 ELSE DaysBeforeMonth(y, m - 1) + DaysInMonth(y, m - 1)

RECURSIVE DaysBeforeYear(_)
DaysBeforeYear(y) ==
  IF y = EpochYear THEN 0
  ELSE IF y > EpochYear THEN DaysBeforeYear(y - 1) + DaysInYear(y - 1)
  ELSE DaysBeforeYear(y + 1) - DaysInYear(y)

InvalidDate == << >>

isValid(d) == d # InvalidDate

\* parseISO: a well-formed calendar date gives a Date, anything else
\* (empty string, month 13, February 30) gives Invalid Date
parseISO(s) ==
  IF Len(s) = 3 /\ s[2] \in 1..12 /\ s[3] >= 1 /\ s[3] <= DaysInMonth(s[1], s[2])
  THEN << DaysBeforeYear(s[1]) + DaysBeforeMonth(s[1], s[2]) + (s[3] - 1) >>
  ELSE InvalidDate

RECURSIVE YmdFrom(_, _, _)
YmdFrom(y, m, n) ==
  IF n < 0 THEN YmdFrom(y - 1, 1, n + DaysInYear(y - 1))
  ELSE IF m = 1 /\ n >= DaysInYear(y) THEN YmdFrom(y + 1, 1, n - DaysInYear(y))
  ELSE IF n >= DaysInMonth(y, m) THEN YmdFrom(y, m + 1, n - DaysInMonth(y, m))
  ELSE << y, m, n + 1 >>

\* format(d, 'yyyy-MM-dd') of a valid Date (format of Invalid Date throws:
\* every caller below tests isValid first or is modelled as raising)
formatISO(d) == YmdFrom(EpochYear, 1, d[1])

addDays(d, k) == IF isValid(d) THEN << d[1] + k >> ELSE InvalidDate

differenceInDays(l, r) == l[1] - r[1]

\* new Date(): the day the session runs
Today == << 2024, 3, 1 >>

\* ------------------------------------------------------------------------
\* utils/dateHelpers
\* ------------------------------------------------------------------------
calculateEndDate(startDateStr, days) ==
  LET start == parseISO(startDateStr) IN
  IF ~isValid(start) THEN Today
  ELSE formatISO(addDays(start, Max(0, days - 1)))

calculateStartDate(endDateStr, days) ==
  LET end == parseISO(endDateStr) IN
  IF ~isValid(end) THEN Today
  ELSE formatISO(addDays(end, 0 - Max(0, days - 1)))

\* variant of calculateWorkDays: the start day is not counted
calculateWorkDaysExclusive(startStr, endStr) ==
  LET start == parseISO(startStr)
      end   == parseISO(endStr) IN
  IF ~isValid(start) \/ ~isValid(end) THEN 1
  ELSE Max(1, differenceInDays(end, start))

calculateWorkDays(startStr, endStr) ==
  LET start == parseISO(startStr)
      end   == parseISO(endStr) IN
  IF ~isValid(start) \/ ~isValid(end) THEN 1
  ELSE Max(1, differenceInDays(end, start) + 1)

STEP_COLORS == << "#3498db", "#2ecc71", "#f1c40f", "#9b59b6", "#e74c3c", "#e67e22" >>


\* ------------------------------------------------------------------------
\* ProjectItem (types.ts) and list helpers
\* ------------------------------------------------------------------------
Item(id, sId, tId, type, description, accountable, workDays, start, end, progress, mode, color) ==
  [ id |-> id, sId |-> sId, tId |-> tId, type |-> type, description |-> description,
    accountable |-> accountable, workDays |-> workDays, start |-> start, end |-> end,
    progress |-> progress, mode |-> mode, color |-> color ]

StepTId == << -1 >>

\* Array.prototype.filter
RECURSIVE SelectItems(_, _)
SelectItems(list, keep) ==
  IF list = << >> THEN << >>
  ELSE (IF Head(list).id \in keep THEN << Head(list) >> ELSE << >>) \o SelectItems(Tail(list), keep)

\* variant of findIndex: an absent id yields the last position
findIndexOrLast(list, id) ==
  IF \E i \in 1..Len(list) : list[i].id = id
  THEN CHOOSE i \in 1..Len(list) : list[i].id = id /\ \A j \in 1..(i - 1) : list[j].id # id
  ELSE Len(list)

\* Array.prototype.findIndex on ids, 1-based; 0 when absent (-1 in the source)
findIndex(list, id) ==
  IF \E i \in 1..Len(list) : list[i].id = id
  THEN CHOOSE i \in 1..Len(list) : list[i].id = id /\ \A j \in 1..(i - 1) : list[j].id # id
  ELSE 0

\* list with x inserted so that it becomes element number pos (splice(pos-1, 0, x))
InsertAt(list, pos, xs) ==
  SubSeq(list, 1, Min(pos - 1, Len(list))) \o xs \o SubSeq(list, Min(pos, Len(list) + 1), Len(list))

RemoveAt(list, pos) == SubSeq(list, 1, pos - 1) \o SubSeq(list, pos + 1, Len(list))

\* ------------------------------------------------------------------------
\* reIndexItems
\* ------------------------------------------------------------------------
\* variant of stepCounterAt: a Step that already has a number keeps it
stepCounterKeepsStored(list, i) ==
  IF list[i].type = "S" /\ list[i].sId # 0 THEN list[i].sId
  ELSE Cardinality({ j \in 1..i : list[j].type = "S" })

\* value of stepCounter after the map callback has processed element i
stepCounterAt(list, i) == Cardinality({ j \in 1..i : list[j].type = "S" })

\* variant of taskCounterAt: the counter is not reset at a Step
taskCounterNeverReset(list, i) == Cardinality({ j \in 1..i : list[j].type = "T" })

\* value of taskCounter after the map callback has processed element i
taskCounterAt(list, i) ==
  LET steps == { j \in 1..i : list[j].type = "S" }
      lastStep == IF steps = {} THEN 0 ELSE CHOOSE j \in steps : \A k \in steps : k <= j
  IN i - lastStep

\* variant of stepColorAt: past the end of the palette the last color is kept
stepColorAtNoWrap(list, i) ==
  LET sc == stepCounterAt(list, i) IN
  IF sc = 0 THEN STEP_COLORS[1] ELSE STEP_COLORS[Min(sc, Len(STEP_COLORS))]

\* value of currentStepColor after the map callback has processed element i
stepColorAt(list, i) ==
  LET sc == stepCounterAt(list, i) IN
  IF sc = 0 THEN STEP_COLORS[1] ELSE STEP_COLORS[((sc - 1) % Len(STEP_COLORS)) + 1]

\* first pass: sId, tId and color from the list order
itemsWithIds(list) ==
  [ i \in 1..Len(list) |->
      IF list[i].type = "S"
      THEN [ list[i] EXCEPT !.sId = stepCounterAt(list, i), !.tId = StepTId,
                            !.color = stepColorAt(list, i) ]
      ELSE LET sc == stepCounterAt(list, i)
               s  == IF sc = 0 THEN 1 ELSE sc
           IN [ list[i] EXCEPT !.sId = s, !.tId = << s, taskCounterAt(list, i) >>,
                               !.color = stepColorAt(list, i) ] ]

childTasks(arr, step) == { j \in 1..Len(arr) : arr[j].type = "T" /\ arr[j].sId = step.sId }

\* Math.min / Math.max over the children's getTime() values (all valid here)
MinStart(arr, kids) ==
  CHOOSE n \in { parseISO(arr[j].start)[1] : j \in kids } :
    \A j \in kids : n <= parseISO(arr[j].start)[1]

MaxEnd(arr, kids) ==
  CHOOSE n \in { parseISO(arr[j].end)[1] : j \in kids } :
    \A j \in kids : n >= parseISO(arr[j].end)[1]

\* format(new Date(NaN)) throws RangeError: a Step with a child Task whose
\* start or end does not parse makes the second pass throw
aggregateThrows(arr) ==
  \E i \in 1..Len(arr) :
    /\ arr[i].type = "S"
    /\ \E j \in childTasks(arr, arr[i]) :
         ~isValid(parseISO(arr[j].start)) \/ ~isValid(parseISO(arr[j].end))

\* variant of aggregated: the end of a Step is computed from its start and
\* the workDays it had before the pass
aggregatedStaleSpan(arr) ==
  [ i \in 1..Len(arr) |->
      IF arr[i].type = "S" /\ childTasks(arr, arr[i]) # {}
      THEN LET kids     == childTasks(arr, arr[i])
               startStr == formatISO(<< MinStart(arr, kids) >>)
               endStr   == formatISO(<< MaxEnd(arr, kids) >>)
           IN [ arr[i] EXCEPT !.start = startStr,
                              !.end = calculateEndDate(startStr, arr[i].workDays),
                              !.workDays = calculateWorkDays(startStr, endStr) ]
      ELSE arr[i] ]

\* second pass: every Step with child Tasks takes their min start / max end
aggregated(arr) ==
  [ i \in 1..Len(arr) |->
      IF arr[i].type = "S" /\ childTasks(arr, arr[i]) # {}
      THEN LET kids     == childTasks(arr, arr[i])
               startStr == formatISO(<< MinStart(arr, kids) >>)
               endStr   == formatISO(<< MaxEnd(arr, kids) >>)
           IN [ arr[i] EXCEPT !.start = startStr, !.end = endStr,
                              !.workDays = calculateWorkDays(startStr, endStr) ]
      ELSE arr[i] ]

reIndexThrows(list) == aggregateThrows(itemsWithIds(list))

reIndexItems(list) == aggregated(itemsWithIds(list))

\* ------------------------------------------------------------------------
\* updateItem: merge, date triangle, forward sweep
\* ------------------------------------------------------------------------
\* variant of clampProgress: only the upper limit is applied
clampProgressUpperOnly(p) == IF p = << >> THEN 0 ELSE Min(100, p[1])

\* Math.min(100, Math.max(0, Number(p) || 0)); p is <<n>> or << >> (NaN)
clampProgress(p) == IF p = << >> THEN 0 ELSE Min(100, Max(0, p[1]))

\* { ...item, ...updates } followed by the progress clamp
mergeUpdates(item, updates) ==
  [ f \in DOMAIN item |->
      IF f \in DOMAIN updates
      THEN (IF f = "progress" THEN clampProgress(updates[f]) ELSE updates[f])
      ELSE item[f] ]

\* variant of resolveDates: the end branch is tried before the workDays branch
resolveDatesEndFirst(item, updates) ==
  IF "end" \in DOMAIN updates
  THEN [ item EXCEPT !.workDays = calculateWorkDays(item.start, updates.end) ]
  ELSE IF "workDays" \in DOMAIN updates
  THEN [ item EXCEPT !.end = calculateEndDate(item.start, updates.workDays) ]
  ELSE IF "start" \in DOMAIN updates
  THEN [ item EXCEPT !.end = calculateEndDate(updates.start, item.workDays) ]
  ELSE item

\* variant of resolveDates: a supplied workDays leaves the merged end alone
resolveDatesEndKept(item, updates) ==
  IF "workDays" \in DOMAIN updates
  THEN IF "end" \in DOMAIN updates THEN item
       ELSE [ item EXCEPT !.end = calculateEndDate(item.start, updates.workDays) ]
  ELSE IF "end" \in DOMAIN updates
  THEN [ item EXCEPT !.workDays = calculateWorkDays(item.start, updates.end) ]
  ELSE IF "start" \in DOMAIN updates
  THEN [ item EXCEPT !.end = calculateEndDate(updates.start, item.workDays) ]
  ELSE item

\* the if / else-if chain on workDays, end, start
resolveDates(item, updates) ==
  IF "workDays" \in DOMAIN updates
  THEN [ item EXCEPT !.end = calculateEndDate(item.start, updates.workDays) ]
  ELSE IF "end" \in DOMAIN updates
  THEN [ item EXCEPT !.workDays = calculateWorkDays(item.start, updates.end) ]
  ELSE IF "start" \in DOMAIN updates
  THEN [ item EXCEPT !.end = calculateEndDate(updates.start, item.workDays) ]
  ELSE item

\* variant of sweepNext: the link mode is read from next instead of current
sweepNextOwnMode(current, next) ==
  LET start1 == IF next.mode = "FS" THEN formatISO(addDays(parseISO(current.end), 1))
                ELSE IF next.mode = "SS" THEN current.start
                ELSE next.start
      end1   == IF next.mode = "SF" THEN current.start
                ELSE IF next.mode = "FF" THEN current.end
                ELSE next.end
      end2   == IF next.mode \in {"FS", "SS"} THEN calculateEndDate(start1, next.workDays) ELSE end1
      start2 == IF next.mode \in {"SF", "FF"} THEN calculateStartDate(end2, next.workDays) ELSE start1
  IN IF next.start # start2 \/ next.end # end2
     THEN [ next EXCEPT !.start = start2, !.end = end2 ]
     ELSE next

\* variant of sweepNext: SF takes the end and FF the start of current
sweepNextInverseSwapped(current, next) ==
  LET start1 == IF current.mode = "FS" THEN formatISO(addDays(parseISO(current.end), 1))
                ELSE IF current.mode = "SS" THEN current.start
                ELSE next.start
      end1   == IF current.mode = "SF" THEN current.end
                ELSE IF current.mode = "FF" THEN current.start
                ELSE next.end
      end2   == IF current.mode \in {"FS", "SS"} THEN calculateEndDate(start1, next.workDays) ELSE end1
      start2 == IF current.mode \in {"SF", "FF"} THEN calculateStartDate(end2, next.workDays) ELSE start1
  IN IF next.start # start2 \/ next.end # end2
     THEN [ next EXCEPT !.start = start2, !.end = end2 ]
     ELSE next

\* the body of the for loop for one i: newItems[i+1] recomputed from newItems[i]
sweepNext(current, next) ==
  LET start1 == IF current.mode = "FS" THEN formatISO(addDays(parseISO(current.end), 1))
                ELSE IF current.mode = "SS" THEN current.start
                ELSE next.start
      end1   == IF current.mode = "SF" THEN current.start
                ELSE IF current.mode = "FF" THEN current.end
                ELSE next.end
      end2   == IF current.mode \in {"FS", "SS"} THEN calculateEndDate(start1, next.workDays) ELSE end1
      start2 == IF current.mode \in {"SF", "FF"} THEN calculateStartDate(end2, next.workDays) ELSE start1
  IN IF next.start # start2 \/ next.end # end2
     THEN [ next EXCEPT !.start = start2, !.end = end2 ]
     ELSE next

\* format(addDays(parseISO(current.end), 1)) throws when current.end does not parse
sweepStepThrows(current, next) ==
  next.type = "T" /\ current.mode = "FS" /\ ~isValid(parseISO(current.end))

\* variant of sweep: the loop stops at the first successor it leaves unchanged
RECURSIVE sweepEarlyExit(_, _)
sweepEarlyExit(newItems, i) ==
  IF i >= Len(newItems) THEN [ raised |-> FALSE, items |-> newItems ]
  ELSE IF sweepStepThrows(newItems[i], newItems[i + 1]) THEN [ raised |-> TRUE, items |-> newItems ]
  ELSE IF newItems[i + 1].type = "T"
  THEN IF sweepNext(newItems[i], newItems[i + 1]) = newItems[i + 1]
       THEN [ raised |-> FALSE, items |-> newItems ]
       ELSE sweepEarlyExit([ newItems EXCEPT ![i + 1] = sweepNext(newItems[i], newItems[i + 1]) ], i + 1)
  ELSE sweepEarlyExit(newItems, i + 1)

\* the for loop from position i (1-based) to the second-to-last position
RECURSIVE sweep(_, _)
sweep(newItems, i) ==
  IF i >= Len(newItems) THEN [ raised |-> FALSE, items |-> newItems ]
  ELSE IF sweepStepThrows(newItems[i], newItems[i + 1]) THEN [ raised |-> TRUE, items |-> newItems ]
  ELSE IF newItems[i + 1].type = "T"
  THEN sweep([ newItems EXCEPT ![i + 1] = sweepNext(newItems[i], newItems[i + 1]) ], i + 1)
  ELSE sweep(newItems, i + 1)

\* variant of applyEdit: the swept list is stored without reIndexItems
applyEditUnindexed(prevItems, index, updates) ==
  LET item  == resolveDates(mergeUpdates(prevItems[index], updates), updates)
      swept == sweep([ prevItems EXCEPT ![index] = item ], index)
  IN IF swept.raised \/ reIndexThrows(swept.items)
     THEN [ raised |-> TRUE, items |-> prevItems ]
     ELSE [ raised |-> FALSE, items |-> swept.items ]

\* updateItem up to the call of updateItemsWithHistory: the list handed to it,
\* or raised when the sweep or reIndexItems throws
applyEdit(prevItems, index, updates) ==
  LET item  == resolveDates(mergeUpdates(prevItems[index], updates), updates)
      swept == sweep([ prevItems EXCEPT ![index] = item ], index)
  IN IF swept.raised \/ reIndexThrows(swept.items)
     THEN [ raised |-> TRUE, items |-> prevItems ]
     ELSE [ raised |-> FALSE, items |-> reIndexItems(swept.items) ]

\* ------------------------------------------------------------------------
\* State of the App component
\* ------------------------------------------------------------------------
VARIABLES
  projects,          \* project id -> its items (Project.items)
  currentProjectId,  \* active project id, NoProject when null
  history,           \* snapshots kept for undo/redo
  historyIndex,      \* cursor into history, 0-based as in the source, -1 when empty
  backups,           \* project id -> localStorage backups_<id>, newest first
  nextId,            \* the next value uuidv4() hands out
  lastOp,            \* the handler that ran last and its arguments
  nops               \* number of handler invocations so far

vars == << projects, currentProjectId, history, historyIndex, backups, nextId, lastOp, nops >>

NoProject == 0

ProjectIds == { 1, 2 }

\* [...nextHistory, newItems].slice(-11)
HistoryLimit == 11

\* [newBackup, ...backups].slice(0, 10)
BackupLimit == 10

LastN(seq, n) == IF Len(seq) <= n THEN seq ELSE SubSeq(seq, Len(seq) - n + 1, Len(seq))

FirstN(seq, n) == IF Len(seq) <= n THEN seq ELSE SubSeq(seq, 1, n)

\* const items = activeProject?.items || []
items == IF currentProjectId = NoProject THEN << >> ELSE projects[currentProjectId]

\* lastOp: handler name, its arguments (a, b, u), whether it got past its early
\* returns without throwing, the cursor it started from and whether the
\* history was full then
Op(name, a, b, u, applied) ==
  [ op |-> name, a |-> a, b |-> b, u |-> u, applied |-> applied,
    idx0 |-> historyIndex, full0 |-> (Len(history) = HistoryLimit) ]

NoUpdates == [ f \in {} |-> 0 ]

\* ------------------------------------------------------------------------
\* updateItemsWithHistory
\* ------------------------------------------------------------------------
\* variants of recorded with a plausible slip each: the redo tail kept, no
\* cut to the limit, the cut taken from the wrong end
recordedKeepsRedoTail(hist, idx, newItems) == LastN(hist \o << newItems >>, HistoryLimit)

recordedUncut(hist, idx, newItems) == SubSeq(hist, 1, idx + 1) \o << newItems >>

recordedKeepsOldest(hist, idx, newItems) ==
  FirstN(SubSeq(hist, 1, idx + 1) \o << newItems >>, HistoryLimit)

\* variant of recorded: the snapshot at the cursor is overwritten with the
\* new list, as when a handler writes into the array it was handed
recordedOverCurrent(hist, idx, newItems) ==
  LastN(SubSeq(hist, 1, idx) \o << newItems, newItems >>, HistoryLimit)

\* the snapshot list after recording newItems at cursor idx
recorded(hist, idx, newItems) == LastN(SubSeq(hist, 1, idx + 1) \o << newItems >>, HistoryLimit)

\* variant of updateItemsWithHistory: the list is stored in every project
updateItemsWithHistoryInAll(newItems) ==
  /\ projects' = [ p \in DOMAIN projects |-> newItems ]
  /\ history' = recorded(history, historyIndex, newItems)
  /\ historyIndex' = Len(history') - 1

\* updateItemsWithHistory(newItems): store the list in the active project
\* and record it
updateItemsWithHistory(newItems) ==
  /\ projects' = [ projects EXCEPT ![currentProjectId] = newItems ]
  /\ history' = recorded(history, historyIndex, newItems)
  /\ historyIndex' = Len(history') - 1

NothingChanges == UNCHANGED << projects, history, historyIndex >>

\* ------------------------------------------------------------------------
\* Handlers
\* ------------------------------------------------------------------------
\* variant of SelectProject: the cursor is left where it was
SelectProjectCursorKept(p) ==
  /\ currentProjectId = NoProject
  /\ currentProjectId' = p
  /\ history' = << projects[p] >>
  /\ lastOp' = Op("select", p, 0, NoUpdates, TRUE)
  /\ UNCHANGED << projects, backups, nextId, historyIndex >>

\* setCurrentProjectId(p.id) on the dashboard, then the history reset effect
SelectProject(p) ==
  /\ currentProjectId = NoProject
  /\ currentProjectId' = p
  /\ history' = << projects[p] >>
  /\ historyIndex' = 0
  /\ lastOp' = Op("select", p, 0, NoUpdates, TRUE)
  /\ UNCHANGED << projects, backups, nextId >>

\* setCurrentProjectId(null) from the header, then the history reset effect
CloseProject ==
  /\ currentProjectId # NoProject
  /\ currentProjectId' = NoProject
  /\ history' = << >>
  /\ historyIndex' = -1
  /\ lastOp' = Op("close", 0, 0, NoUpdates, TRUE)
  /\ UNCHANGED << projects, backups, nextId >>

\* variant of undoResult: jumps to the oldest snapshot
undoResultToOldest(its, hist, idx) ==
  IF idx > 0
  THEN [ items |-> hist[1], history |-> hist, historyIndex |-> 0 ]
  ELSE [ items |-> its, history |-> hist, historyIndex |-> idx ]

\* what undo leaves: the current list, the snapshot list and the cursor
undoResult(its, hist, idx) ==
  IF idx > 0
  THEN [ items |-> hist[idx], history |-> hist, historyIndex |-> idx - 1 ]
  ELSE [ items |-> its, history |-> hist, historyIndex |-> idx ]

\* variants of redoResult: the cursor moves but the list installed is the one
\* at the old cursor; the cursor jumps to the newest snapshot
redoResultStale(its, hist, idx) ==
  IF idx < Len(hist) - 1
  THEN [ items |-> hist[idx + 1], history |-> hist, historyIndex |-> idx + 1 ]
  ELSE [ items |-> its, history |-> hist, historyIndex |-> idx ]

redoResultToNewest(its, hist, idx) ==
  IF idx < Len(hist) - 1
  THEN [ items |-> hist[Len(hist)], history |-> hist, historyIndex |-> Len(hist) - 1 ]
  ELSE [ items |-> its, history |-> hist, historyIndex |-> idx ]

\* what redo leaves
redoResult(its, hist, idx) ==
  IF idx < Len(hist) - 1
  THEN [ items |-> hist[idx + 2], history |-> hist, historyIndex |-> idx + 1 ]
  ELSE [ items |-> its, history |-> hist, historyIndex |-> idx ]

undo ==
  /\ currentProjectId # NoProject
  /\ LET r == undoResult(items, history, historyIndex) IN
     /\ projects' = [ projects EXCEPT ![currentProjectId] = r.items ]
     /\ history' = r.history
     /\ historyIndex' = r.historyIndex
  /\ lastOp' = Op("undo", 0, 0, NoUpdates, historyIndex > 0)
  /\ UNCHANGED << currentProjectId, backups, nextId >>

redo ==
  /\ currentProjectId # NoProject
  /\ LET r == redoResult(items, history, historyIndex) IN
     /\ projects' = [ projects EXCEPT ![currentProjectId] = r.items ]
     /\ history' = r.history
     /\ historyIndex' = r.historyIndex
  /\ lastOp' = Op("redo", 0, 0, NoUpdates, historyIndex < Len(history) - 1)
  /\ UNCHANGED << currentProjectId, backups, nextId >>

updateItem(id, updates) ==
  /\ currentProjectId # NoProject
  /\ LET index == findIndex(items, id) IN
     IF index = 0
     THEN NothingChanges /\ lastOp' = Op("updateItem", id, 0, updates, FALSE)
     ELSE LET r == applyEdit(items, index, updates) IN
          /\ IF r.raised THEN NothingChanges ELSE updateItemsWithHistory(r.items)
          /\ lastOp' = Op("updateItem", id, index, updates, ~r.raised)
  /\ UNCHANGED << currentProjectId, backups, nextId >>

\* variant of withNewTask: the new Task takes the id of the item it follows
withNewTaskParentId(list, index, newId) ==
  LET parent == list[index] IN
  InsertAt(list, index + 1,
           << Item(parent.id, parent.sId, << parent.sId, 0 >>, "T", "New Task", "", 1,
                   parent.end, parent.end, 0, "FS", parent.color) >>)

\* the list addItemAt hands to reIndexItems (index is a 1-based position)
withNewTask(list, index, newId) ==
  LET parent == list[index] IN
  InsertAt(list, index + 1,
           << Item(newId, parent.sId, << parent.sId, 0 >>, "T", "New Task", "", 1,
                   parent.end, parent.end, 0, "FS", parent.color) >>)

addItemAt(index) ==
  /\ currentProjectId # NoProject
  /\ index \in 1..Len(items)
  /\ LET updated == withNewTask(items, index, nextId) IN
     /\ IF reIndexThrows(updated) THEN NothingChanges
        ELSE updateItemsWithHistory(reIndexItems(updated))
     /\ lastOp' = Op("addItemAt", index, nextId, NoUpdates, ~reIndexThrows(updated))
  /\ nextId' = nextId + 1
  /\ UNCHANGED << currentProjectId, backups >>

\* the list addStep hands to reIndexItems
withNewStep(list, newId) ==
  LET baseDate == IF list = << >> THEN Today ELSE list[Len(list)].end IN
  list \o << Item(newId, 0, StepTId, "S", "New Phase", "", 1, baseDate, baseDate, 0, "FS",
                  STEP_COLORS[1]) >>

addStep ==
  /\ currentProjectId # NoProject
  /\ LET updated == withNewStep(items, nextId) IN
     /\ IF reIndexThrows(updated) THEN NothingChanges
        ELSE updateItemsWithHistory(reIndexItems(updated))
     /\ lastOp' = Op("addStep", 0, nextId, NoUpdates, ~reIndexThrows(updated))
  /\ nextId' = nextId + 1
  /\ UNCHANGED << currentProjectId, backups >>

\* variant of dropped: a dragged Step is moved alone, like a Task
droppedAlone(list, draggedIndex, targetIdx) ==
  InsertAt(RemoveAt(list, draggedIndex), targetIdx, << list[draggedIndex] >>)

\* the list onDrop hands to reIndexItems (1-based positions)
dropped(list, draggedIndex, targetIdx) ==
  LET sourceItem == list[draggedIndex] IN
  IF sourceItem.type = "S"
  THEN LET stepItems == SelectItems(list, { list[i].id : i \in { j \in 1..Len(list) : list[j].sId = sourceItem.sId } })
           others    == SelectItems(list, { list[i].id : i \in { j \in 1..Len(list) : list[j].sId # sourceItem.sId } })
           found     == findIndex(others, list[targetIdx].id)
           insertPos == IF found = 0 THEN Len(others) ELSE found - 1
       IN InsertAt(others, (IF draggedIndex < targetIdx THEN insertPos + 1 ELSE insertPos) + 1, stepItems)
  ELSE InsertAt(RemoveAt(list, draggedIndex), targetIdx, << sourceItem >>)

\* onDragStart(draggedIndex) followed by onDrop(targetIdx)
onDrop(draggedIndex, targetIdx) ==
  /\ currentProjectId # NoProject
  /\ draggedIndex \in 1..Len(items)
  /\ targetIdx \in 1..Len(items)
  /\ IF draggedIndex = targetIdx THEN NothingChanges
     ELSE IF reIndexThrows(dropped(items, draggedIndex, targetIdx)) THEN NothingChanges
     ELSE updateItemsWithHistory(reIndexItems(dropped(items, draggedIndex, targetIdx)))
  /\ lastOp' = Op("onDrop", draggedIndex, targetIdx, NoUpdates,
                  draggedIndex # targetIdx /\ ~reIndexThrows(dropped(items, draggedIndex, targetIdx)))
  /\ UNCHANGED << currentProjectId, backups, nextId >>

\* variant of withoutItem: only the item itself is removed
withoutItemAlone(list, itemToDelete) ==
  SelectItems(list, { list[i].id : i \in { j \in 1..Len(list) : list[j].id # itemToDelete.id } })

\* variant of withoutItem: the Tasks of the same Step go with a deleted Task
withoutItemSiblings(list, itemToDelete) ==
  SelectItems(list, { list[i].id : i \in { j \in 1..Len(list) :
                        list[j].id # itemToDelete.id
                        /\ (list[j].type = "S" \/ list[j].sId # itemToDelete.sId) } })

\* the list executeDeleteItem hands to reIndexItems
withoutItem(list, itemToDelete) ==
  IF itemToDelete.type = "S"
  THEN SelectItems(list, { list[i].id : i \in { j \in 1..Len(list) :
                             list[j].id # itemToDelete.id /\ list[j].sId # itemToDelete.sId } })
  ELSE SelectItems(list, { list[i].id : i \in { j \in 1..Len(list) : list[j].id # itemToDelete.id } })

\* setItemToDelete(items[index]) followed by executeDeleteItem
executeDeleteItem(index) ==
  /\ currentProjectId # NoProject
  /\ index \in 1..Len(items)
  /\ LET newList == withoutItem(items, items[index]) IN
     /\ IF reIndexThrows(newList) THEN NothingChanges
        ELSE updateItemsWithHistory(reIndexItems(newList))
     /\ lastOp' = Op("executeDeleteItem", index, items[index].id, NoUpdates, ~reIndexThrows(newList))
  /\ UNCHANGED << currentProjectId, backups, nextId >>

\* saveBackup(activeProject): manual snapshot button or the hourly interval
saveBackup ==
  /\ currentProjectId # NoProject
  /\ backups' = [ backups EXCEPT ![currentProjectId] = FirstN(<< items >> \o @, BackupLimit) ]
  /\ lastOp' = Op("saveBackup", 0, 0, NoUpdates, TRUE)
  /\ UNCHANGED << projects, currentProjectId, history, historyIndex, nextId >>

\* variant of restoreBackup: the restored list is recorded as a new snapshot
restoreBackupRecorded(k) ==
  /\ currentProjectId # NoProject
  /\ k \in 1..Len(backups[currentProjectId])
  /\ updateItemsWithHistory(backups[currentProjectId][k])
  /\ lastOp' = Op("restoreBackup", k, 0, NoUpdates, TRUE)
  /\ UNCHANGED << currentProjectId, backups, nextId >>

\* variant of restoreBackup: the history is left as it was
restoreBackupHistoryKept(k) ==
  /\ currentProjectId # NoProject
  /\ k \in 1..Len(backups[currentProjectId])
  /\ projects' = [ projects EXCEPT ![currentProjectId] = backups[currentProjectId][k] ]
  /\ lastOp' = Op("restoreBackup", k, 0, NoUpdates, TRUE)
  /\ UNCHANGED << currentProjectId, backups, nextId, history, historyIndex >>

\* restoreBackup(b) for the k-th backup listed for the active project
restoreBackup(k) ==
  /\ currentProjectId # NoProject
  /\ k \in 1..Len(backups[currentProjectId])
  /\ projects' = [ projects EXCEPT ![currentProjectId] = backups[currentProjectId][k] ]
  /\ history' = << backups[currentProjectId][k] >>
  /\ historyIndex' = 0
  /\ lastOp' = Op("restoreBackup", k, 0, NoUpdates, TRUE)
  /\ UNCHANGED << currentProjectId, backups, nextId >>

\* ------------------------------------------------------------------------
\* Initial state: the projects found in localStorage when the App mounts.
\* Each stored list is what an earlier session left behind, written as the
\* handlers that produced it.
\* ------------------------------------------------------------------------
\* handleProjectSubmit in create mode: a project with its Initial Phase
newProjectItems(firstId, start, workDays) ==
  reIndexItems(<< Item(firstId, 1, StepTId, "S", "Initial Phase", "", workDays, start,
                       calculateEndDate(start, workDays), 0, "FS", STEP_COLORS[1]) >>)

\* project 1 when its backup was taken: the Initial Phase and one Task
StoredBackup1 == reIndexItems(withNewTask(newProjectItems(1, << 2024, 2, 26 >>, 1), 1, 2))

\* project 1: a Phase and three Tasks chained finish-to-start
StoredItems1 ==
  LET p2 == reIndexItems(withNewTask(StoredBackup1, 2, 3))
      p3 == reIndexItems(withNewTask(p2, 3, 4))
      p4 == applyEdit(p3, 4, [ workDays |-> 2 ]).items
  IN applyEdit(p4, 2, [ workDays |-> 2 ]).items

\* project 2: a Phase with one start-to-start Task, then an empty Phase
StoredItems2 ==
  LET p0 == newProjectItems(11, << 2024, 2, 27 >>, 2)
      p1 == reIndexItems(withNewTask(p0, 1, 12))
      p2 == reIndexItems(withNewStep(p1, 13))
  IN applyEdit(p2, 2, [ mode |-> "SS" ]).items

FirstFreeId == 21

StoredProjects == [ p \in ProjectIds |-> IF p = 1 THEN StoredItems1 ELSE StoredItems2 ]

\* the App mounts with project p stored as the active one: the history reset
\* effect runs once
MountedWith(p) ==
  /\ projects = StoredProjects
  /\ currentProjectId = p
  /\ history = << StoredProjects[p] >>
  /\ historyIndex = 0
  /\ backups = [ q \in ProjectIds |-> IF q = 1 THEN << StoredBackup1 >> ELSE << >> ]
  /\ nextId = FirstFreeId
  /\ lastOp = Op("mount", p, 0, NoUpdates, TRUE)
  /\ nops = 0

\* ------------------------------------------------------------------------
\* Spec: every handler with a broad choice of arguments, MaxOps handler
\* invocations after the mount
\* ------------------------------------------------------------------------
MaxOps == 2

MaxWorkDays == 3

MissingId == 99

ItemIds == { items[i].id : i \in 1..Len(items) }

DateInputs == { << 2024, 2, 27 >>, << >> }

WorkDaysInputs == { -1, MaxWorkDays }

ProgressInputs == { << 40 >>, << 150 >> }

Modes == { "FS", "SS", "SF", "FF" }

ModeInputs == { "SS", "SF", "FF" }

\* the partial updates the table's inputs send (one field each) and some
\* updates with several fields, which updateItem accepts as well
Updates ==
       { [ workDays |-> w ] : w \in WorkDaysInputs }
  \cup { [ start |-> d ] : d \in DateInputs }
  \cup { [ end |-> d ] : d \in DateInputs }
  \cup { [ progress |-> p ] : p \in ProgressInputs }
  \cup { [ mode |-> m ] : m \in ModeInputs }
  \cup { [ type |-> t ] : t \in { "S", "T" } }
  \cup { [ description |-> "edited", accountable |-> "someone", progress |-> << -5 >> ],
         [ sId |-> 7, tId |-> << 9, 9 >>, color |-> "#000000", progress |-> << >> ],
         [ workDays |-> MaxWorkDays, end |-> << 2024, 2, 27 >> ],
         [ start |-> << 2024, 3, 1 >>, end |-> << 2024, 3, 1 >> ] }

Init == \E p \in ProjectIds : MountedWith(p)

Handlers ==
  \/ \E p \in ProjectIds : SelectProject(p)
  \/ CloseProject
  \/ \E id \in ItemIds, u \in Updates : updateItem(id, u)
  \/ updateItem(MissingId, [ workDays |-> MaxWorkDays ])
  \/ \E i \in 1..Len(items) : addItemAt(i)
  \/ addStep
  \/ \E i, j \in 1..Len(items) : onDrop(i, j)
  \/ \E i \in 1..Len(items) : executeDeleteItem(i)
  \/ undo
  \/ redo
  \/ saveBackup
  \/ \E k \in 1..BackupLimit : restoreBackup(k)

Next == nops < MaxOps /\ nops' = nops + 1 /\ Handlers

Spec == Init /\ [][Next]_vars

\* ------------------------------------------------------------------------
\* SpecHist: long runs over the history. One edit (the last item's progress
\* flipped between 0 and 1) makes successive snapshots differ; undo
\* and redo are free; the other handlers are taken at most MaxOtherOps times.
\* ------------------------------------------------------------------------
MaxOtherOps == 1

LastItem == items[Len(items)]

nextProgress == << (LastItem.progress + 1) % 2 >>

HistEdit == Len(items) > 0 /\ updateItem(LastItem.id, [ progress |-> nextProgress ])

OtherHandlers ==
  \/ \E p \in ProjectIds : SelectProject(p)
  \/ CloseProject
  \/ addItemAt(Len(items))
  \/ addStep
  \/ onDrop(Len(items), 2)
  \/ executeDeleteItem(Len(items))
  \/ saveBackup
  \/ restoreBackup(1)

NextHist ==
  \/ (HistEdit \/ undo \/ redo) /\ UNCHANGED nops
  \/ nops < MaxOtherOps /\ nops' = nops + 1 /\ OtherHandlers

\* the App mounts with no active project: the dashboard
MountedOnDashboard ==
  /\ projects = StoredProjects
  /\ currentProjectId = NoProject
  /\ history = << >>
  /\ historyIndex = -1
  /\ backups = [ q \in ProjectIds |-> IF q = 1 THEN << StoredBackup1 >> ELSE << >> ]
  /\ nextId = FirstFreeId
  /\ lastOp = Op("mount", NoProject, 0, NoUpdates, TRUE)
  /\ nops = 0

InitHist == MountedWith(1) \/ MountedOnDashboard

SpecHist == InitHist /\ [][NextHist]_vars

\* ------------------------------------------------------------------------
\* SpecBound: a freshly activated project, then edits that count the last
\* item's progress up (the k-th record stores progress k), undo and redo
\* ------------------------------------------------------------------------
MaxRecords == 16

CountEdit == updateItem(LastItem.id, [ progress |-> << LastItem.progress + 1 >> ])

\* nops counts the records made
NextBound ==
  \/ nops < MaxRecords /\ nops' = nops + 1 /\ CountEdit
  \/ (undo \/ redo) /\ UNCHANGED nops

SpecBound == MountedWith(1) /\ [][NextBound]_vars

\* ------------------------------------------------------------------------
\* Properties of the history (HistoryManager)
\* ------------------------------------------------------------------------
RecordingOps == { "updateItem", "addItemAt", "addStep", "onDrop", "executeDeleteItem" }

\* the step just taken recorded a new list
Recorded == lastOp.op \in RecordingOps /\ lastOp.applied

HistState(its, hist, idx) == [ items |-> its, history |-> hist, historyIndex |-> idx ]

Current == HistState(items, history, historyIndex)

\* C1: a record from history H and cursor c leaves H[0..c] with the new list
\* appended, cut to its last 11 entries; the cursor is the last index, and a
\* redo right after it changes nothing
C1_RecordStep ==
  (lastOp'.op \in RecordingOps /\ lastOp'.applied) =>
    LET n    == historyIndex + 2
        m    == IF n <= HistoryLimit THEN n ELSE HistoryLimit
        drop == n - m
    IN /\ Len(history') = m
       /\ history'[m] = items'
       /\ \A k \in 1..(m - 1) : history'[k] = history[k + drop]
       /\ historyIndex' = m - 1
       /\ redoResult(items', history', historyIndex') = HistState(items', history', historyIndex')

C1_Record == [][C1_RecordStep]_vars

\* a record made with a full history and the cursor below the top: the redo
\* tail was discarded
C1_Witness == Recorded /\ lastOp.full0 /\ lastOp.idx0 < HistoryLimit - 2

\* C2: with an active project the history holds 1..11 snapshots and the cursor
\* is one of its indices; with none the history is empty and the cursor is -1
C2_HistoryShape ==
  IF currentProjectId # NoProject
  THEN Len(history) >= 1 /\ Len(history) <= HistoryLimit
       /\ historyIndex >= 0 /\ historyIndex <= Len(history) - 1
  ELSE history = << >> /\ historyIndex = -1

\* a record made at the top of a full history: the oldest snapshot was dropped
C2_Witness ==
  Recorded /\ lastOp.full0 /\ lastOp.idx0 = HistoryLimit - 1
           /\ Len(history) = HistoryLimit

RECURSIVE UndoN(_, _)
UndoN(st, n) ==
  IF n = 0 THEN st
  ELSE LET r == undoResult(st.items, st.history, st.historyIndex) IN UndoN(r, n - 1)

RECURSIVE RedoN(_, _)
RedoN(st, n) ==
  IF n = 0 THEN st
  ELSE LET r == redoResult(st.items, st.history, st.historyIndex) IN RedoN(r, n - 1)

\* C3: with the cursor on the newest snapshot (as it is right after n recorded
\* edits, n <= 10, which leave at least n snapshots below it), n undos followed
\* by n redos give back the same list, snapshots and cursor
C3_UndoRedoRoundTrip ==
  (currentProjectId # NoProject /\ historyIndex = Len(history) - 1) =>
    \A n \in 1..(HistoryLimit - 1) :
      n <= historyIndex => RedoN(UndoN(Current, n), n) = Current

\* ten recorded edits, ten undos and ten redos have been made: the last redo
\* returned to the top of a full history
C3_Witness ==
  /\ lastOp.op = "redo" /\ lastOp.applied
  /\ Len(history) = HistoryLimit /\ historyIndex = HistoryLimit - 1

\* C4: undo at cursor 0 changes nothing; above 0 it lowers the cursor by one,
\* makes the snapshot below the cursor the active project's list and leaves
\* the snapshot list as it was
C4_UndoStep ==
  lastOp'.op = "undo" =>
    IF historyIndex <= 0
    THEN projects' = projects /\ history' = history /\ historyIndex' = historyIndex
    ELSE /\ historyIndex' = historyIndex - 1
         /\ items' = history[(historyIndex - 1) + 1]
         /\ history' = history

C4_Undo == [][C4_UndoStep]_vars

C4_Witness == lastOp.op = "undo" /\ lastOp.applied /\ items # history[lastOp.idx0 + 1]

\* C5: redo at the last index changes nothing; below it, it raises the cursor
\* by one, makes the snapshot above the cursor the active project's list and
\* leaves the snapshot list as it was
C5_RedoStep ==
  lastOp'.op = "redo" =>
    IF historyIndex >= Len(history) - 1
    THEN projects' = projects /\ history' = history /\ historyIndex' = historyIndex
    ELSE /\ historyIndex' = historyIndex + 1
         /\ items' = history[(historyIndex + 1) + 1]
         /\ history' = history

C5_Redo == [][C5_RedoStep]_vars

C5_Witness == lastOp.op = "redo" /\ lastOp.applied /\ items # history[lastOp.idx0 + 1]

\* progress of the last item of a list: under SpecBound the number of the
\* record that stored the list, 0 for the list the project was activated with
Stamp(list) == list[Len(list)].progress

\* C6: 15 records in a row after activation leave exactly the 11 newest
\* snapshots (records 5..15); ten undos from there make the list the oldest
\* snapshot kept (record 5, neither the activation list nor record 1) and an
\* eleventh undo changes nothing
C6_HistoryBound ==
  /\ (nops = 15 /\ Recorded /\ Stamp(items) = 15) =>
       /\ Len(history) = HistoryLimit
       /\ \A k \in 1..Len(history) : Stamp(history[k]) = k + 4
       /\ LET u10 == UndoN(Current, 10)
          IN /\ u10.items = history[1]
             /\ Stamp(u10.items) = 5
             /\ u10.items # StoredItems1
             /\ UndoN(u10, 1) = u10
  /\ (nops = 15 /\ Stamp(history[Len(history)]) = 15 /\ lastOp.op = "undo" /\ historyIndex = 0) =>
       (items = history[1] /\ Stamp(items) = 5)

\* the 15 records were made and ten undos after them brought the cursor to 0
C6_Witness ==
  /\ nops = 15 /\ Stamp(history[Len(history)]) = 15
  /\ lastOp.op = "undo" /\ lastOp.applied /\ historyIndex = 0

\* ------------------------------------------------------------------------
\* Properties of the items after an edit
\* ------------------------------------------------------------------------
ValidDates(it) == isValid(parseISO(it.start)) /\ isValid(parseISO(it.end))

DayOf(str) == parseISO(str)[1]

\* the step just taken was an updateItem that stored a new list
Edited == lastOp.op = "updateItem" /\ lastOp.applied

\* C7: every item of the current list has end = start + (workDays - 1) days
C7_DateTriangle ==
  \A i \in 1..Len(items) :
    ValidDates(items[i]) => DayOf(items[i].end) = DayOf(items[i].start) + (items[i].workDays - 1)

\* C8: every item of the current list has workDays >= 1
C8_WorkDaysAtLeastOne == \A i \in 1..Len(items) : items[i].workDays >= 1

\* C9: updateItem settles the edited item's dates by one branch, in the order
\* workDays, end, start; with none of the three supplied they stay as they
\* were. Read off the stored list wherever reIndexItems does not replace the
\* edited item's dates (a Task, or a Step without child Tasks).
C9_PriorityStep ==
  (lastOp'.op = "updateItem" /\ lastOp'.applied) =>
    LET u     == lastOp'.u
        old   == items[lastOp'.b]
        new   == items'[lastOp'.b]
        start == IF "start" \in DOMAIN u THEN u.start ELSE old.start
    IN (new.type = "T" \/ childTasks(items', new) = {}) =>
         IF "workDays" \in DOMAIN u
         THEN /\ new.workDays = u.workDays
              /\ new.start = start
              /\ new.end = calculateEndDate(start, u.workDays)
         ELSE IF "end" \in DOMAIN u
         THEN /\ new.end = u.end
              /\ new.start = start
              /\ new.workDays = calculateWorkDays(start, u.end)
         ELSE IF "start" \in DOMAIN u
         THEN /\ new.start = u.start
              /\ new.workDays = old.workDays
              /\ new.end = calculateEndDate(u.start, old.workDays)
         ELSE new.start = old.start /\ new.end = old.end /\ new.workDays = old.workDays

LinkedForward(cur, succ, span) ==
  /\ cur.mode = "FS" =>
       isValid(parseISO(cur.end)) /\ succ.start = formatISO(addDays(parseISO(cur.end), 1))
  /\ cur.mode = "SS" => succ.start = cur.start
  /\ cur.mode \in { "FS", "SS" } =>
       (isValid(parseISO(succ.start)) =>
          isValid(parseISO(succ.end)) /\ DayOf(succ.end) = DayOf(succ.start) + span)

\* C10 as claimed: after updateItem on position k, every position i >= k with a
\* Task successor has the FS / SS relation to it, and the successor's end is
\* its start + (workDays - 1)
C10_ForwardLinks ==
  Edited =>
    \A i \in lastOp.b..(Len(items) - 1) :
      items[i + 1].type = "T" =>
        LinkedForward(items[i], items[i + 1], items[i + 1].workDays - 1)

\* C10 amended: the same for every position i >= k that holds a Task or a Step
\* without child Tasks, the successor's end being its start +
\* max(0, workDays - 1)
C10_ForwardLinksAmended ==
  Edited =>
    \A i \in lastOp.b..(Len(items) - 1) :
      (items[i + 1].type = "T" /\ (items[i].type = "T" \/ childTasks(items, items[i]) = {})) =>
        LinkedForward(items[i], items[i + 1], Max(0, items[i + 1].workDays - 1))

\* an edit of the first of three chained Tasks moved the two Tasks after it
C10_Witness ==
  /\ Edited
  /\ lastOp.b + 2 <= Len(items)
  /\ \A i \in lastOp.b..(lastOp.b + 2) : items[i].type = "T"
  /\ items[lastOp.b].mode = "SS" /\ items[lastOp.b + 1].mode = "FS"
  /\ items[lastOp.b + 2].start # StoredItems1[4].start

\* the SF / FF relation between the item at position i and its successor
LinkedBackward(cur, succ, span) ==
  /\ cur.mode = "SF" => succ.end = cur.start
  /\ cur.mode = "FF" => succ.end = cur.end
  /\ cur.mode \in { "SF", "FF" } =>
       (isValid(parseISO(succ.end)) =>
          isValid(parseISO(succ.start)) /\ DayOf(succ.start) = DayOf(succ.end) - span)

\* C11 as claimed: after updateItem on position k, every position i >= k with a
\* Task successor has the SF / FF relation to it, and the successor's start is
\* its end - (workDays - 1)
C11_BackwardLinks ==
  Edited =>
    \A i \in lastOp.b..(Len(items) - 1) :
      items[i + 1].type = "T" =>
        LinkedBackward(items[i], items[i + 1], items[i + 1].workDays - 1)

\* C11 amended: the same for every position i >= k that holds a Task or a Step
\* without child Tasks, the successor's start being its end -
\* max(0, workDays - 1)
C11_BackwardLinksAmended ==
  Edited =>
    \A i \in lastOp.b..(Len(items) - 1) :
      (items[i + 1].type = "T" /\ (items[i].type = "T" \/ childTasks(items, items[i]) = {})) =>
        LinkedBackward(items[i], items[i + 1], Max(0, items[i + 1].workDays - 1))

\* an edit made a Task start-to-finish and pulled its successor, a Task of
\* two days, back so that it ends where the edited Task starts
C11_Witness ==
  /\ Edited
  /\ lastOp.b < Len(items)
  /\ items[lastOp.b].type = "T" /\ items[lastOp.b].mode = "SF"
  /\ items[lastOp.b + 1].type = "T" /\ items[lastOp.b + 1].workDays = 2
  /\ items[lastOp.b + 1].end = items[lastOp.b].start
  /\ items[lastOp.b + 1].start # items[lastOp.b + 1].end

\* positions k..j of list hold Tasks in mode FS with valid dates, each one
\* starting the day after its predecessor ends
FSRun(list, k, j) ==
  /\ \A i \in k..j : list[i].type = "T" /\ list[i].mode = "FS" /\ ValidDates(list[i])
  /\ \A i \in k..(j - 1) : DayOf(list[i + 1].start) = DayOf(list[i].end) + 1

\* C12: an updateItem that changes the workDays or the end of the first Task
\* of a finish-to-start run, moving its end by d days, moves the start and the
\* end of every later Task of the run by d days and keeps their workDays
C12_ChainCascadeStep ==
  (/\ lastOp'.op = "updateItem" /\ lastOp'.applied
   /\ DOMAIN lastOp'.u \in { { "workDays" }, { "end" } }) =>
    LET k == lastOp'.b IN
    \A j \in (k + 1)..Len(items) :
      (FSRun(items, k, j) /\ ValidDates(items'[k])) =>
        LET d == DayOf(items'[k].end) - DayOf(items[k].end) IN
        \A i \in (k + 1)..j :
          /\ ValidDates(items'[i])
          /\ DayOf(items'[i].start) = DayOf(items[i].start) + d
          /\ DayOf(items'[i].end) = DayOf(items[i].end) + d
          /\ items'[i].workDays = items[i].workDays

C12_ChainCascade == [][C12_ChainCascadeStep]_vars

\* the cascade of C12 for the runs whose later Tasks have
\* end = start + max(0, workDays - 1) before the edit
C12_ChainCascadeConsistentStep ==
  (/\ lastOp'.op = "updateItem" /\ lastOp'.applied
   /\ DOMAIN lastOp'.u \in { { "workDays" }, { "end" } }) =>
    LET k == lastOp'.b IN
    \A j \in (k + 1)..Len(items) :
      (/\ FSRun(items, k, j) /\ ValidDates(items'[k])
       /\ \A i \in (k + 1)..j :
            DayOf(items[i].end) = DayOf(items[i].start) + Max(0, items[i].workDays - 1)) =>
        LET d == DayOf(items'[k].end) - DayOf(items[k].end) IN
        \A i \in (k + 1)..j :
          /\ ValidDates(items'[i])
          /\ DayOf(items'[i].start) = DayOf(items[i].start) + d
          /\ DayOf(items'[i].end) = DayOf(items[i].end) + d
          /\ items'[i].workDays = items[i].workDays

C12_ChainCascadeConsistent == [][C12_ChainCascadeConsistentStep]_vars

\* ------------------------------------------------------------------------
\* SpecReindex: reIndexItems applied to lists of up to MaxLen items in any
\* order of Steps and Tasks, with stale or fresh numbering fields and with
\* dates that parse or not
\* ------------------------------------------------------------------------
MaxLen == 3

\* start / end pairs of an input item
DatePairs ==
  { << << 2024, 2, 26 >>, << 2024, 2, 27 >> >>,
    << << 2024, 2, 28 >>, << 2024, 2, 29 >> >>,
    << << >>, << 2024, 2, 27 >> >> }

\* type, whether the numbering fields are stale, and the dates of an input item
Shapes == { "S", "T" } \X BOOLEAN \X DatePairs

\* the item at position i of an input list
ShapedItem(i, shape) ==
  Item(i, IF shape[2] THEN 7 ELSE 0,
       IF shape[2] THEN << 9, 9 >> ELSE (IF shape[1] = "S" THEN StepTId ELSE << 0, 0 >>),
       shape[1], "", "", 1, shape[3][1], shape[3][2], 0, "FS",
       IF shape[2] THEN "#000000" ELSE STEP_COLORS[1])

ReindexInputs ==
  UNION { { [ i \in 1..n |-> ShapedItem(i, f[i]) ] : f \in [ 1..n -> Shapes ] } : n \in 0..MaxLen }

InitReindex ==
  /\ \E list \in ReindexInputs : projects = [ p \in ProjectIds |-> IF p = 1 THEN list ELSE << >> ]
  /\ currentProjectId = 1
  /\ history = << >>
  /\ historyIndex = -1
  /\ backups = [ q \in ProjectIds |-> << >> ]
  /\ nextId = FirstFreeId
  /\ lastOp = Op("input", 0, 0, NoUpdates, TRUE)
  /\ nops = 0

\* number of positions whose sId the first pass changes
renumbered(list) == Cardinality({ i \in 1..Len(list) : itemsWithIds(list)[i].sId # list[i].sId })

\* items := reIndexItems(items); nothing is stored when it throws
ReIndex ==
  /\ IF reIndexThrows(items)
     THEN UNCHANGED projects
     ELSE projects' = [ projects EXCEPT ![currentProjectId] = reIndexItems(items) ]
  /\ lastOp' = Op("reIndexItems", renumbered(items), 0, NoUpdates, ~reIndexThrows(items))
  /\ UNCHANGED << currentProjectId, history, historyIndex, backups, nextId, nops >>

SpecReindex == InitReindex /\ [][ReIndex]_vars

\* the list is the result of reIndexItems
Reindexed == lastOp.op = "reIndexItems" /\ lastOp.applied

\* C13: reIndexItems applied to its own result returns it unchanged, field by
\* field
C13_ReindexIdempotent ==
  Reindexed => ~reIndexThrows(items) /\ reIndexItems(items) = items

\* the result of reIndexItems on a list with stale numbering fields, a Task
\* before the first Step and a Step without Tasks
C13_Witness ==
  /\ Reindexed
  /\ Len(items) = 3
  /\ items[1].type = "T" /\ items[2].type = "S" /\ items[3].type = "S"
  /\ \A i \in 1..3 : items[i].color # "#000000"

\* ------------------------------------------------------------------------
\* Properties of the list reIndexItems returns
\* ------------------------------------------------------------------------
\* the Tasks between the Step at position i and the next Step
positionalChildren(list, i) ==
  { j \in (i + 1)..Len(list) : \A k \in (i + 1)..j : list[k].type = "T" }

\* C14: every Step followed by at least one Task before the next Step has
\* start = the minimum start and end = the maximum end of exactly those Tasks,
\* and workDays = the inclusive day count from start to end
C14_PhaseAggregate ==
  \A i \in 1..Len(items) :
    LET kids == positionalChildren(items, i) IN
    (items[i].type = "S" /\ kids # {} /\ \A j \in kids : ValidDates(items[j])) =>
      /\ ValidDates(items[i])
      /\ DayOf(items[i].start) = MinStart(items, kids)
      /\ DayOf(items[i].end) = MaxEnd(items, kids)
      /\ items[i].workDays = DayOf(items[i].end) - DayOf(items[i].start) + 1

\* the aggregate of C14 over the Tasks that carry the Step's sId, with the
\* workDays calculateWorkDays gives
C14_PhaseAggregateBySId ==
  \A i \in 1..Len(items) :
    LET kids == childTasks(items, items[i]) IN
    (items[i].type = "S" /\ kids # {} /\ \A j \in kids : ValidDates(items[j])) =>
      /\ ValidDates(items[i])
      /\ DayOf(items[i].start) = MinStart(items, kids)
      /\ DayOf(items[i].end) = MaxEnd(items, kids)
      /\ items[i].workDays = Max(1, DayOf(items[i].end) - DayOf(items[i].start) + 1)

IsStep(it) == it.type = "S"

\* the Steps of a list, in list order
StepsOf(list) == SelectSeq(list, IsStep)

\* the Steps of the list carry the numbers 1, 2, ..., m in list order
DenseStepNumbers(list) == \A k \in 1..Len(StepsOf(list)) : StepsOf(list)[k].sId = k

\* C15: in the list reIndexItems returns the Steps carry the numbers 1..m in
\* list order, whatever numbers were stored before
C15_DensePhaseNumbers == Reindexed => DenseStepNumbers(items)

\* reIndexItems renumbered a list of Step, Task, Step whose stored numbers
\* were stale
C15_Witness ==
  /\ Reindexed /\ lastOp.a = 3
  /\ Len(items) = 3
  /\ items[1].type = "S" /\ items[2].type = "T" /\ items[3].type = "S"

\* position of the nearest Step before position i, 0 when there is none
nearestStepBefore(list, i) ==
  IF \E j \in 1..(i - 1) : list[j].type = "S"
  THEN CHOOSE j \in 1..(i - 1) :
         list[j].type = "S" /\ \A k \in (j + 1)..(i - 1) : list[k].type = "T"
  ELSE 0

\* C16: in the list reIndexItems returns every Task is numbered p.k, p the
\* number of the nearest Step before it (1 when there is none) and k its
\* position among the Tasks since that Step, and has sId p; every Step has
\* the tId "-1"
C16_TaskNumbers ==
  Reindexed =>
    \A i \in 1..Len(items) :
      IF items[i].type = "S"
      THEN items[i].tId = StepTId
      ELSE LET s == nearestStepBefore(items, i)
               p == IF s = 0 THEN 1 ELSE items[s].sId
           IN items[i].sId = p /\ items[i].tId = << p, i - s >>

\* reIndexItems numbered a Task before the first Step and the Task after
\* that Step
C16_Witness ==
  /\ Reindexed
  /\ Len(items) = 3
  /\ items[1].type = "T" /\ items[2].type = "S" /\ items[3].type = "T"
  /\ items[1].tId = << 1, 1 >> /\ items[3].tId = << 1, 1 >>

\* ------------------------------------------------------------------------
\* Properties of the handlers' results
\* ------------------------------------------------------------------------
\* later keeps the items of earlier whose ids are not in gone, in their order
KeepsAllBut(earlier, later, gone) ==
  /\ Len(later) = Len(earlier) - Cardinality(gone)
  /\ \A i \in 1..Len(later) : later[i].id \notin gone /\ findIndex(earlier, later[i].id) # 0
  /\ \A i, j \in 1..Len(later) :
       i < j => findIndex(earlier, later[i].id) < findIndex(earlier, later[j].id)

\* C17: executeDeleteItem on a Step removes the Step and the Tasks that carry
\* its sId, keeps every other item in order, and leaves the Steps numbered
\* 1..m
C17_DeleteCascadeStep ==
  (lastOp'.op = "executeDeleteItem" /\ items[lastOp'.a].type = "S") =>
    LET del  == items[lastOp'.a]
        gone == { del.id } \cup
                { items[j].id : j \in { k \in 1..Len(items) :
                                          items[k].type = "T" /\ items[k].sId = del.sId } }
    IN /\ lastOp'.applied
       /\ KeepsAllBut(items, items', gone)
       /\ DenseStepNumbers(items')

C17_DeleteCascade == [][C17_DeleteCascadeStep]_vars

\* the first Step of project 2 was deleted with its Task; the Step that
\* followed it is now number 1
C17_Witness ==
  /\ lastOp.op = "executeDeleteItem" /\ lastOp.applied
  /\ currentProjectId = 2
  /\ lastOp.b = StoredItems2[1].id
  /\ Len(items) = 1
  /\ items[1].id = StoredItems2[3].id /\ items[1].sId = 1

\* C18: updateItem with an id that no item of the list has changes neither
\* the list nor the history nor the cursor
C18_MissingIdStep ==
  (lastOp'.op = "updateItem" /\ \A i \in 1..Len(items) : items[i].id # lastOp'.a) =>
    /\ projects' = projects
    /\ history' = history
    /\ historyIndex' = historyIndex
    /\ ~lastOp'.applied

C18_MissingId == [][C18_MissingIdStep]_vars

\* updateItem was called with an absent id on a list of several items, after
\* an earlier handler had recorded a snapshot
C18_Witness ==
  /\ lastOp.op = "updateItem" /\ lastOp.a = MissingId /\ ~lastOp.applied
  /\ Len(items) > 1
  /\ Len(history) = 2 /\ historyIndex = 1

\* C19: updateItem on an item of the list, addItemAt, addStep and
\* executeDeleteItem complete and store a list, whatever the dates of the
\* items are
C19_NoRaise ==
  \/ lastOp.op \notin { "updateItem", "addItemAt", "addStep", "executeDeleteItem" }
  \/ lastOp.op = "updateItem" /\ lastOp.b = 0
  \/ lastOp.applied

\* the progress stored for a supplied value: << >> is a non-numeric value
StoredProgress(p) ==
  IF p = << >> THEN 0 ELSE IF p[1] < 0 THEN 0 ELSE IF p[1] > 100 THEN 100 ELSE p[1]

\* C20: every item of every project has progress in 0..100; an updateItem
\* that supplies progress stores the value brought into 0..100, 0 for a
\* non-numeric one; the item addItemAt or addStep inserts has progress 0
C20_ProgressRange ==
  /\ \A p \in ProjectIds : \A i \in 1..Len(projects[p]) :
       projects[p][i].progress >= 0 /\ projects[p][i].progress <= 100
  /\ (Edited /\ "progress" \in DOMAIN lastOp.u) =>
       items[lastOp.b].progress = StoredProgress(lastOp.u.progress)
  /\ (lastOp.op \in { "addItemAt", "addStep" } /\ lastOp.applied) =>
       \A i \in 1..Len(items) : items[i].id = lastOp.b => items[i].progress = 0

\* progress 150 was supplied and 100 was stored
C20_Witness ==
  /\ Edited /\ "progress" \in DOMAIN lastOp.u
  /\ lastOp.u.progress = << 150 >>
  /\ items[lastOp.b].progress = 100

\* ------------------------------------------------------------------------
\* Snapshots, project switch and restore
\* ------------------------------------------------------------------------
\* C21: a snapshot that stays in the history is not changed by any handler:
\* a record keeps the snapshots up to the cursor (less the oldest one when
\* the list is full) as they were, and undo, redo and every handler call
\* that stores nothing keep the whole list as it was
C21_SnapshotsKeptStep ==
  IF lastOp'.op \in RecordingOps /\ lastOp'.applied
  THEN LET drop == Max(0, historyIndex + 2 - HistoryLimit) IN
       /\ Len(history') = historyIndex + 2 - drop
       /\ \A k \in 1..(Len(history') - 1) : history'[k] = history[k + drop]
  ELSE lastOp'.op \in (RecordingOps \cup { "undo", "redo", "saveBackup" }) => history' = history

C21_SnapshotsKept == [][C21_SnapshotsKeptStep]_vars

\* a structural operation recorded a list after two or more edits; the
\* snapshots kept below it all differ from it
C21_Witness ==
  /\ Recorded /\ lastOp.op # "updateItem"
  /\ Len(history) >= 3
  /\ \A k \in 1..(Len(history) - 1) : history[k] # items

\* SpecSwitch: up to MaxSwitchOps handler calls among one edit (the last
\* item's progress flipped), undo, redo, closing and selecting a project,
\* saving and restoring a backup
MaxSwitchOps == 5

SwitchHandlers ==
  \/ HistEdit
  \/ undo
  \/ redo
  \/ CloseProject
  \/ \E p \in ProjectIds : SelectProject(p)
  \/ saveBackup
  \/ \E k \in 1..2 : restoreBackup(k)

NextSwitch == nops < MaxSwitchOps /\ nops' = nops + 1 /\ SwitchHandlers

SpecSwitch == Init /\ [][NextSwitch]_vars

\* C22: selecting a project leaves one snapshot, the project's stored list,
\* and cursor 0, so that undo and redo change nothing; closing the project
\* leaves an empty history and cursor -1
C22_ResetStep ==
  /\ lastOp'.op = "select" =>
       /\ currentProjectId' = lastOp'.a
       /\ projects' = projects
       /\ history' = << projects[lastOp'.a] >>
       /\ historyIndex' = 0
       /\ undoResult(items', history', historyIndex') = HistState(items', history', historyIndex')
       /\ redoResult(items', history', historyIndex') = HistState(items', history', historyIndex')
  /\ lastOp'.op = "close" =>
       /\ currentProjectId' = NoProject
       /\ projects' = projects
       /\ history' = << >>
       /\ historyIndex' = -1

C22_Reset == [][C22_ResetStep]_vars

\* a project was edited, closed and selected again: its history is the one
\* snapshot of the edited list
C22_Witness ==
  /\ lastOp.op = "select"
  /\ nops >= 4
  /\ items # StoredProjects[currentProjectId]
  /\ history = << items >>

\* C23: restoreBackup makes the backup's list the active project's list and
\* the only snapshot, with cursor 0, so that an undo right after it changes
\* nothing; the other projects keep their lists
C23_RestoreStep ==
  lastOp'.op = "restoreBackup" =>
    LET restored == backups[currentProjectId][lastOp'.a] IN
    /\ currentProjectId' = currentProjectId
    /\ projects' = [ projects EXCEPT ![currentProjectId] = restored ]
    /\ history' = << restored >>
    /\ historyIndex' = 0
    /\ undoResult(items', history', historyIndex') = HistState(items', history', historyIndex')

C23_Restore == [][C23_RestoreStep]_vars

\* a backup was restored over a project whose history held several
\* snapshots, with the cursor above the first one
C23_Witness ==
  /\ lastOp.op = "restoreBackup" /\ lastOp.idx0 >= 1
  /\ items = StoredBackup1
  /\ history = << items >> /\ historyIndex = 0

\* ------------------------------------------------------------------------
\* SpecDates: up to MaxDateOps calls of updateItem whose updates supply any
\* one, two or three of workDays, start and end
\* ------------------------------------------------------------------------
MaxDateOps == 1

DateFields == { "workDays", "start", "end" }

DayCounts == { -1, MaxWorkDays }

Dates == { << 2024, 2, 27 >>, << 2024, 3, 1 >> }

\* every update over a non-empty set of date fields
DateUpdates ==
       { [ workDays |-> w ] : w \in DayCounts }
  \cup { [ start |-> s ] : s \in Dates }
  \cup { [ end |-> e ] : e \in Dates }
  \cup { [ workDays |-> w, start |-> s ] : w \in DayCounts, s \in Dates }
  \cup { [ workDays |-> w, end |-> e ] : w \in DayCounts, e \in Dates }
  \cup { [ start |-> s, end |-> e ] : s \in Dates, e \in Dates }
  \cup { [ workDays |-> w, start |-> s, end |-> e ] : w \in DayCounts, s \in Dates, e \in Dates }

NextDates ==
  /\ nops < MaxDateOps
  /\ nops' = nops + 1
  /\ \E id \in ItemIds, u \in DateUpdates : updateItem(id, u)

SpecDates == Init /\ [][NextDates]_vars

\* the date fields an update supplies
Supplied(u) == DOMAIN u \cap DateFields

\* the field whose branch of updateItem runs
Driver(u) ==
  IF "workDays" \in DOMAIN u THEN "workDays" ELSE IF "end" \in DOMAIN u THEN "end" ELSE "start"

\* C24 as claimed: when an update supplies several date fields, every one of
\* them is found in the edited Task exactly as supplied
C24_OthersVerbatim ==
  (Edited /\ Cardinality(Supplied(lastOp.u)) >= 2 /\ items[lastOp.b].type = "T") =>
    \A f \in Supplied(lastOp.u) : items[lastOp.b][f] = lastOp.u[f]

\* C24 amended: a supplied start and a supplied workDays are found as
\* supplied; a supplied end is found as supplied unless workDays is supplied
\* too, and then the end is the one computed from start and workDays
C24_OthersVerbatimAmended ==
  (Edited /\ Cardinality(Supplied(lastOp.u)) >= 2 /\ items[lastOp.b].type = "T") =>
    LET u == lastOp.u
        it == items[lastOp.b]
    IN /\ \A f \in Supplied(u) \ { "end" } : it[f] = u[f]
       /\ "end" \in DOMAIN u =>
            IF Driver(u) = "workDays"
            THEN it.end = calculateEndDate(it.start, u.workDays)
            ELSE it.end = u.end

\* start and end were supplied together: both are stored as supplied and
\* workDays is computed from them
C24_Witness ==
  /\ Edited /\ Supplied(lastOp.u) = { "start", "end" }
  /\ items[lastOp.b].type = "T"
  /\ items[lastOp.b].start = << 2024, 2, 27 >> /\ items[lastOp.b].end = << 2024, 3, 1 >>
  /\ items[lastOp.b].workDays = 4


\* ------------------------------------------------------------------------
\* C25
\* ------------------------------------------------------------------------
\* the calls C25 is about: a structural operation that changes the sequence,
\* or updateItem on an id of the list
SequenceChanging(o) ==
  \/ o.op \in { "addItemAt", "addStep", "executeDeleteItem" }
  \/ o.op = "onDrop" /\ o.a # o.b
  \/ o.op = "updateItem" /\ o.b # 0

\* the list the structural handler called as o passes to reIndexItems
handedToReIndex(list, o) ==
  IF o.op = "addItemAt" THEN withNewTask(list, o.a, o.b)
  ELSE IF o.op = "addStep" THEN withNewStep(list, o.b)
  ELSE IF o.op = "executeDeleteItem" THEN withoutItem(list, list[o.a])
  ELSE dropped(list, o.a, o.b)

\* the step pushes exactly one snapshot, equal to the new list, above the
\* snapshot at the old cursor
OneNewSnapshot ==
  LET n == Min(historyIndex + 2, HistoryLimit) IN
  /\ Len(history') = n
  /\ historyIndex' = n - 1
  /\ history'[n] = items'
  /\ \A k \in 1..(n - 1) : history'[k] = history[k + (historyIndex + 2 - n)]

ThroughReIndex(o) ==
  /\ ~reIndexThrows(items')
  /\ reIndexItems(items') = items'
  /\ o.op # "updateItem" => items' = reIndexItems(handedToReIndex(items, o))

\* C25: every sequence-changing structural operation and every updateItem on
\* an existing id yields a reindexed list and records exactly one new snapshot
\* equal to it; undo and redo record none
C25_OneSnapshotStep ==
  /\ SequenceChanging(lastOp') => (ThroughReIndex(lastOp') /\ OneNewSnapshot)
  /\ lastOp'.op \in { "undo", "redo" } => history' = history

C25_OneSnapshot == [][C25_OneSnapshotStep]_vars

\* the same, for the calls that return
C25_OneSnapshotWhenReturningStep ==
  /\ (SequenceChanging(lastOp') /\ lastOp'.applied) => (ThroughReIndex(lastOp') /\ OneNewSnapshot)
  /\ lastOp'.op \in { "undo", "redo" } => history' = history

C25_OneSnapshotWhenReturning == [][C25_OneSnapshotWhenReturningStep]_vars


\* ------------------------------------------------------------------------
\* C26
\* ------------------------------------------------------------------------
\* the fields reIndexItems may rewrite in a Task
NumberingFields == { "sId", "tId", "color" }

SameSpan(a, b) == a.start = b.start /\ a.end = b.end /\ a.workDays = b.workDays

\* out has the length of list, and the id and type of list at each position;
\* every Task of out differs from its input in the numbering fields at most
KeepsItems(list, out) ==
  /\ Len(out) = Len(list)
  /\ \A i \in 1..Len(list) :
       /\ out[i].id = list[i].id
       /\ out[i].type = list[i].type
       /\ list[i].type = "T" =>
            \A f \in (DOMAIN list[i]) \ NumberingFields : out[i][f] = list[i][f]

\* C26: reIndexItems returns the same items in the same order, changes only
\* sId, tId and color of a Task, and leaves start, end and workDays of a Step
\* that no Task follows before the next Step
C26_ReindexFrameStep ==
  (lastOp'.op = "reIndexItems" /\ lastOp'.applied) =>
    /\ KeepsItems(items, items')
    /\ \A i \in 1..Len(items) :
         (items[i].type = "S" /\ positionalChildren(items, i) = {}) => SameSpan(items'[i], items[i])

C26_ReindexFrame == [][C26_ReindexFrameStep]_vars

\* the same, a Step being without child when no Task of the renumbered list
\* carries its sId
C26_ReindexFrameBySIdStep ==
  (lastOp'.op = "reIndexItems" /\ lastOp'.applied) =>
    /\ KeepsItems(items, items')
    /\ \A i \in 1..Len(items) :
         (items[i].type = "S" /\ childTasks(items', items'[i]) = {}) => SameSpan(items'[i], items[i])

C26_ReindexFrameBySId == [][C26_ReindexFrameBySIdStep]_vars


\* a Step that no Task follows, spanning the three days of the Task before it
C26_LeadingTaskReached ==
  /\ Len(items) = 3
  /\ items[1].type = "T" /\ items[2].type = "S" /\ items[3].type = "S"
  /\ items[1].workDays = 3 /\ items[2].workDays = 3


\* ------------------------------------------------------------------------
\* reIndexItems on lists long enough to run through the palette: every
\* order of up to MaxPaletteLen Steps and Tasks, stored with stale numbering
\* fields
\* ------------------------------------------------------------------------
MaxPaletteLen == 8

PaletteInputs ==
  UNION { { [ i \in 1..n |-> ShapedItem(i, << f[i], TRUE, << << 2024, 2, 26 >>, << 2024, 2, 27 >> >> >>) ] :
              f \in [ 1..n -> { "S", "T" } ] } :
          n \in 0..MaxPaletteLen }

InitPalette ==
  /\ \E list \in PaletteInputs : projects = [ p \in ProjectIds |-> IF p = 1 THEN list ELSE << >> ]
  /\ currentProjectId = 1
  /\ history = << >>
  /\ historyIndex = -1
  /\ backups = [ q \in ProjectIds |-> << >> ]
  /\ nextId = FirstFreeId
  /\ lastOp = Op("input", 0, 0, NoUpdates, TRUE)
  /\ nops = 0

SpecPalette == InitPalette /\ [][ReIndex]_vars

\* C27: in the list reIndexItems returns the Step numbered n has the palette
\* color at index (n - 1) mod 6, 6 being the length of the palette, and every
\* Task with a Step before it has the color of the nearest such Step
C27_PaletteColors ==
  Reindexed =>
    \A i \in 1..Len(items) :
      IF items[i].type = "S"
      THEN items[i].color = STEP_COLORS[((items[i].sId - 1) % 6) + 1]
      ELSE nearestStepBefore(items, i) # 0 => items[i].color = items[nearestStepBefore(items, i)].color

\* the seventh Step of a reindexed list is back on the first color, and so
\* is the Task after it
C27_Witness ==
  /\ Reindexed
  /\ Len(items) = 8
  /\ \A i \in 1..7 : items[i].type = "S"
  /\ items[8].type = "T"
  /\ items[7].sId = 7 /\ items[7].color = STEP_COLORS[1] /\ items[8].color = STEP_COLORS[1]
  /\ items[6].color = STEP_COLORS[6]


\* ------------------------------------------------------------------------
\* C28
\* ------------------------------------------------------------------------
\* the fields of a Task that a deletion elsewhere leaves alone
TaskContent == { "description", "accountable", "workDays", "start", "end", "progress", "mode" }

\* C28: executeDeleteItem on a Task removes that item alone: the list is one
\* shorter, the other items keep their order, and every other Task keeps its
\* description, accountable, workDays, start, end, progress and mode
C28_DeleteTaskStep ==
  (lastOp'.op = "executeDeleteItem" /\ items[lastOp'.a].type = "T") =>
    /\ lastOp'.applied
    /\ Len(items') = Len(items) - 1
    /\ KeepsAllBut(items, items', { items[lastOp'.a].id })
    /\ \A i \in 1..Len(items') :
         items'[i].type = "T" =>
           \A f \in TaskContent : items'[i][f] = items[findIndex(items, items'[i].id)][f]

C28_DeleteTask == [][C28_DeleteTaskStep]_vars

\* the middle Task of project 1 was deleted: the Step and the Tasks on both
\* sides of it are left
C28_Witness ==
  /\ lastOp.op = "executeDeleteItem" /\ lastOp.applied
  /\ currentProjectId = 1
  /\ lastOp.b = StoredItems1[3].id
  /\ Len(items) = 3
  /\ items[2].id = StoredItems1[2].id /\ items[3].id = StoredItems1[4].id
  /\ items[3].tId = << 1, 2 >>


\* ------------------------------------------------------------------------
\* The date helpers applied to one item: start and end drawn from days on
\* both sides of a month end, a leap day and a year end, workDays from
\* -2 to MaxDays
\* ------------------------------------------------------------------------
MaxDays == 40

HelperDates ==
  { << 2023, 12, 31 >>, << 2024, 1, 21 >>, << 2024, 2, 28 >>, << 2024, 2, 29 >>, << 2024, 3, 1 >> }

HelperInputs ==
  { << Item(1, 1, << 1, 1 >>, "T", "", "", w, s, e, 0, "FS", STEP_COLORS[1]) >> :
      s \in HelperDates, e \in HelperDates, w \in (0 - 2)..MaxDays }

InitHelpers ==
  /\ \E list \in HelperInputs : projects = [ p \in ProjectIds |-> IF p = 1 THEN list ELSE << >> ]
  /\ currentProjectId = 1
  /\ history = << >>
  /\ historyIndex = -1
  /\ backups = [ q \in ProjectIds |-> << >> ]
  /\ nextId = FirstFreeId
  /\ lastOp = Op("input", 0, 0, NoUpdates, TRUE)
  /\ nops = 0

\* 1 when the end of the item is what calculateEndDate just returned
endJustComputed == IF lastOp.op = "calculateEndDate" THEN 1 ELSE 0

\* item.end := calculateEndDate(item.start, item.workDays)
SetEndDate ==
  /\ projects' = [ projects EXCEPT ![1][1].end = calculateEndDate(items[1].start, items[1].workDays) ]
  /\ lastOp' = Op("calculateEndDate", items[1].workDays, 0, NoUpdates, TRUE)
  /\ UNCHANGED << currentProjectId, history, historyIndex, backups, nextId, nops >>

\* item.start := calculateStartDate(item.end, item.workDays)
SetStartDate ==
  /\ projects' = [ projects EXCEPT ![1][1].start = calculateStartDate(items[1].end, items[1].workDays) ]
  /\ lastOp' = Op("calculateStartDate", items[1].workDays, endJustComputed, NoUpdates, TRUE)
  /\ UNCHANGED << currentProjectId, history, historyIndex, backups, nextId, nops >>

\* item.workDays := calculateWorkDays(item.start, item.end)
SetWorkDays ==
  /\ projects' = [ projects EXCEPT ![1][1].workDays = calculateWorkDays(items[1].start, items[1].end) ]
  /\ lastOp' = Op("calculateWorkDays", items[1].workDays, endJustComputed, NoUpdates, TRUE)
  /\ UNCHANGED << currentProjectId, history, historyIndex, backups, nextId, nops >>

NextHelpers == SetEndDate \/ SetStartDate \/ SetWorkDays

SpecHelpers == InitHelpers /\ [][NextHelpers]_vars

\* C29: on valid dates, counting the days from start to the end that
\* calculateEndDate gave for w days returns max(1, w); going back w days from
\* that end with calculateStartDate returns start; and calculateWorkDays
\* returns 1 when the end is before the start
C29_HelpersConsistentStep ==
  /\ (lastOp.op = "calculateEndDate" /\ lastOp'.op = "calculateWorkDays") =>
       items'[1].workDays = Max(1, items[1].workDays)
  /\ (lastOp.op = "calculateEndDate" /\ lastOp'.op = "calculateStartDate") =>
       items'[1].start = items[1].start
  /\ (lastOp'.op = "calculateWorkDays" /\ DayOf(items[1].end) < DayOf(items[1].start)) =>
       items'[1].workDays = 1

C29_HelpersConsistent == [][C29_HelpersConsistentStep]_vars

\* the 40 days from 2024-01-21 were counted back from the end they give, the
\* leap day 2024-02-29
C29_Witness ==
  /\ lastOp.op = "calculateWorkDays" /\ lastOp.b = 1
  /\ lastOp.a = 40
  /\ items[1].start = << 2024, 1, 21 >>
  /\ items[1].end = << 2024, 2, 29 >>
  /\ items[1].workDays = 40


\* ------------------------------------------------------------------------
\* C30
\* ------------------------------------------------------------------------
\* the update supplies start or end and no workDays
DatesOnly(u) == Supplied(u) # {} /\ "workDays" \notin DOMAIN u

\* days from start to end of an item, both counted
InclusiveDays(it) == DayOf(it.end) - DayOf(it.start) + 1

\* C30: after an update of start or end without workDays, the workDays of the
\* edited item is the inclusive day count from its start to its end
C30_DaysRecalculated ==
  (Edited /\ DatesOnly(lastOp.u) /\ ValidDates(items[lastOp.b])) =>
    items[lastOp.b].workDays = InclusiveDays(items[lastOp.b])

\* the same with the count floored at 1, as calculateWorkDays returns it
C30_DaysRecalculatedFloored ==
  (Edited /\ DatesOnly(lastOp.u) /\ ValidDates(items[lastOp.b])) =>
    items[lastOp.b].workDays = Max(1, InclusiveDays(items[lastOp.b]))


\* ------------------------------------------------------------------------
\* SpecInterval: project 1 stays active while time passes. The backup effect
\* (setInterval of one hour, cleared and set again whenever activeProject
\* changes) is followed tick by tick: nops counts the ticks since the
\* interval was last set, TicksPerHour ticks making the hour.
\* ------------------------------------------------------------------------
TicksPerHour == 3

\* one tick of time passes without the interval coming due
Tick ==
  /\ currentProjectId # NoProject
  /\ nops < TicksPerHour
  /\ nops' = nops + 1
  /\ lastOp' = Op("tick", 0, 0, NoUpdates, TRUE)
  /\ UNCHANGED << projects, currentProjectId, history, historyIndex, backups, nextId >>

\* the interval comes due: saveBackup(activeProject), and the next hour starts
IntervalFires ==
  /\ nops = TicksPerHour
  /\ saveBackup
  /\ nops' = 0

\* an edit that writes the value the field already has: the list keeps its
\* contents, which keeps the runs finite, and is stored and recorded as any
\* other edit
SameEdit == updateItem(LastItem.id, [ description |-> LastItem.description ])

\* a handler that calls setProjects gives activeProject a new identity: the
\* effect's cleanup clears the interval and the effect sets a new one
UserEdits ==
  /\ SameEdit \/ undo \/ redo
  /\ nops' = IF lastOp'.applied THEN 0 ELSE nops

NextInterval == Tick \/ IntervalFires \/ UserEdits

SpecInterval == MountedWith(1) /\ [][NextInterval]_vars

\* time does not stop, and a due interval callback runs
FairSpecInterval == SpecInterval /\ WF_vars(Tick) /\ WF_vars(IntervalFires)

\* C31: while the project stays active, backups keep being captured by the
\* hourly interval, whatever edits, undos and redos happen in between
C31_HourlyCapture == []<>(lastOp.op = "saveBackup")


\* ------------------------------------------------------------------------
\* C32
\* ------------------------------------------------------------------------
\* newItems when the for loop of updateItem starts
beforeSweep(list, index, updates) ==
  [ list EXCEPT ![index] = resolveDates(mergeUpdates(list[index], updates), updates) ]

\* a and b differ in start and end at most
SameButDates(a, b) == [ a EXCEPT !.start = b.start, !.end = b.end ] = b

\* what the loop that started on list at position k must have left in out
SweptThrough(list, k, out) ==
  /\ Len(out) = Len(list)
  /\ \A j \in 1..k : out[j] = list[j]
  /\ \A i \in k..(Len(list) - 1) :
       IF list[i + 1].type = "S"
       THEN out[i + 1] = list[i + 1]
       ELSE /\ SameButDates(list[i + 1], out[i + 1])
            /\ LinkedForward(out[i], out[i + 1], Max(0, out[i + 1].workDays - 1))
            /\ LinkedBackward(out[i], out[i + 1], Max(0, out[i + 1].workDays - 1))

\* C32: the for loop of updateItem runs from the edited position to the
\* second-to-last one without stopping early: every Task it reaches as
\* successor ends up linked to the item before it by that item's mode, also
\* when that item was left as it was and when it is a Step, and every Step
\* it reaches as successor keeps all its fields
C32_SweepVisitsAllStep ==
  (lastOp'.op = "updateItem" /\ lastOp'.b # 0) =>
    LET list  == beforeSweep(items, lastOp'.b, lastOp'.u)
        swept == sweep(list, lastOp'.b)
    IN ~swept.raised => SweptThrough(list, lastOp'.b, swept.items)

C32_SweepVisitsAll == [][C32_SweepVisitsAllStep]_vars

\* Task C of project 1 had been moved off its link by an edit of its own
\* start; an edit of Task A's progress then left Task B as it was and put
\* Task C back behind it
C32_Witness ==
  /\ Edited
  /\ currentProjectId = 1
  /\ lastOp.a = StoredItems1[2].id
  /\ DOMAIN lastOp.u = { "progress" }
  /\ historyIndex = 2
  /\ Len(items) = 4 /\ Len(history[2]) = 4
  /\ history[2][4].start # StoredItems1[4].start
  /\ history[2][3] = StoredItems1[3]
  /\ items[3].start = StoredItems1[3].start /\ items[3].end = StoredItems1[3].end
  /\ items[4].start = StoredItems1[4].start


\* ------------------------------------------------------------------------
\* C33
\* ------------------------------------------------------------------------
\* later is earlier with one item put in at position pos
InsertedAt(earlier, later, pos) ==
  /\ Len(later) = Len(earlier) + 1
  /\ \A j \in 1..Len(earlier) : later[IF j < pos THEN j ELSE j + 1].id = earlier[j].id
  /\ \A j \in 1..Len(earlier) : later[pos].id # earlier[j].id

\* C33: addItemAt(i) returns a list one longer whose position i + 1 holds a
\* new Task with a fresh id, workDays 1, start = end = the end of the item at
\* i, progress 0, mode FS and the sId of the item at i, the other items
\* keeping their order; addStep returns a list one longer whose last item is
\* a new Step numbered one more than the number of Steps before
C33_InsertStep ==
  /\ lastOp'.op = "addItemAt" =>
       LET i == lastOp'.a IN
       /\ lastOp'.applied
       /\ InsertedAt(items, items', i + 1)
       /\ items'[i + 1].type = "T"
       /\ items'[i + 1].workDays = 1
       /\ items'[i + 1].start = items[i].end /\ items'[i + 1].end = items[i].end
       /\ items'[i + 1].progress = 0 /\ items'[i + 1].mode = "FS"
       /\ items'[i + 1].sId = items'[i].sId
  /\ lastOp'.op = "addStep" =>
       /\ lastOp'.applied
       /\ InsertedAt(items, items', Len(items) + 1)
       /\ items'[Len(items')].type = "S"
       /\ items'[Len(items')].sId = Len(StepsOf(items)) + 1

C33_Insert == [][C33_InsertStep]_vars


\* the same, for the calls that return
C33_InsertWhenReturningStep ==
  /\ (lastOp'.op = "addItemAt" /\ lastOp'.applied) =>
       LET i == lastOp'.a IN
       /\ InsertedAt(items, items', i + 1)
       /\ items'[i + 1].type = "T"
       /\ items'[i + 1].workDays = 1
       /\ items'[i + 1].start = items[i].end /\ items'[i + 1].end = items[i].end
       /\ items'[i + 1].progress = 0 /\ items'[i + 1].mode = "FS"
       /\ items'[i + 1].sId = items'[i].sId
  /\ (lastOp'.op = "addStep" /\ lastOp'.applied) =>
       /\ InsertedAt(items, items', Len(items) + 1)
       /\ items'[Len(items')].type = "S"
       /\ items'[Len(items')].sId = Len(StepsOf(items)) + 1

C33_InsertWhenReturning == [][C33_InsertWhenReturningStep]_vars


\* ------------------------------------------------------------------------
\* C34
\* ------------------------------------------------------------------------
\* C34: the list of the active project is always a fixed point of
\* reIndexItems, so sId, tId, color and the Step aggregates are the values
\* reIndexItems computes; in particular an sId, tId or color supplied to
\* updateItem is replaced by the value reIndexItems computes for the position
C34_AlwaysReindexed ==
  /\ currentProjectId # NoProject => (~reIndexThrows(items) /\ reIndexItems(items) = items)
  /\ (Edited /\ NumberingFields \cap DOMAIN lastOp.u # {}) =>
       \A f \in NumberingFields : items[lastOp.b][f] = itemsWithIds(items)[lastOp.b][f]

\* an update supplied sId 7, tId 9.9 and a black color for a Task; the Task
\* is stored with none of them
C34_Witness ==
  /\ Edited
  /\ NumberingFields \subseteq DOMAIN lastOp.u
  /\ lastOp.u.sId = 7
  /\ items[lastOp.b].type = "T"
  /\ items[lastOp.b].sId # 7
  /\ items[lastOp.b].tId # lastOp.u.tId
  /\ items[lastOp.b].color # lastOp.u.color


\* ------------------------------------------------------------------------
\* C35
\* ------------------------------------------------------------------------
\* C35: with an active project the snapshot at the cursor is the project's
\* current list
C35_CursorIsCurrent ==
  currentProjectId # NoProject =>
    /\ historyIndex >= 0 /\ historyIndex < Len(history)
    /\ history[historyIndex + 1] = items

\* after an edit and an undo the cursor is on the older of two snapshots,
\* which is the current list again
C35_Witness ==
  /\ lastOp.op = "undo" /\ lastOp.applied
  /\ Len(history) = 2 /\ historyIndex = 0
  /\ history[2] # history[1]
  /\ items = history[1]


\* ------------------------------------------------------------------------
\* C36
\* ------------------------------------------------------------------------
TextFields == { "description", "accountable", "progress" }

\* C36: an updateItem that supplies only description, accountable or
\* progress leaves start, end and workDays of every item as they were
C36_DatesUntouchedStep ==
  (lastOp'.op = "updateItem" /\ lastOp'.b # 0 /\ DOMAIN lastOp'.u \subseteq TextFields) =>
    /\ Len(items') = Len(items)
    /\ \A i \in 1..Len(items) : SameSpan(items'[i], items[i])

C36_DatesUntouched == [][C36_DatesUntouchedStep]_vars


\* ------------------------------------------------------------------------
\* C37
\* ------------------------------------------------------------------------
IdsOf(list) == { list[i].id : i \in 1..Len(list) }

\* the ids of list, position by position
IdSeq(list) == [ i \in 1..Len(list) |-> list[i].id ]

\* later holds the items of earlier, each once
Permuted(earlier, later) ==
  /\ Len(later) = Len(earlier)
  /\ IdsOf(later) = IdsOf(earlier)

\* the ids block appear in later next to each other and in this order
ContiguousIn(later, block) ==
  \E p \in 0..(Len(later) - Len(block)) : \A k \in 1..Len(block) : later[p + k].id = block[k]

\* C37: onDrop returns a permutation of the list. A dragged Task lands on
\* the target position and the other items keep their order; a dragged Step
\* lands with the items that carry its sId as one block in their old order;
\* a drop on the dragged position changes nothing and records nothing
C37_MoveStep ==
  lastOp'.op = "onDrop" =>
    LET from == lastOp'.a
        to   == lastOp'.b
    IN IF from = to
       THEN UNCHANGED << projects, history, historyIndex >>
       ELSE /\ lastOp'.applied
            /\ Permuted(items, items')
            /\ IF items[from].type = "T"
               THEN /\ items'[to].id = items[from].id
                    /\ IdSeq(RemoveAt(items', to)) = IdSeq(RemoveAt(items, from))
               ELSE ContiguousIn(items', IdSeq(SelectSeq(items, LAMBDA it : it.sId = items[from].sId)))

C37_Move == [][C37_MoveStep]_vars

\* the first Step of project 2 was dropped on the second: it now follows it,
\* its Task still behind it
C37_Witness ==
  /\ lastOp.op = "onDrop" /\ lastOp.applied
  /\ lastOp.a = 1 /\ lastOp.b = 3
  /\ IdSeq(items) = << StoredItems2[3].id, StoredItems2[1].id, StoredItems2[2].id >>


\* ------------------------------------------------------------------------
\* C38
\* ------------------------------------------------------------------------
\* no two positions of list hold the same id
DistinctIds(list) == \A i, j \in 1..Len(list) : i # j => list[i].id # list[j].id

\* C38: the ids of the active list are pairwise distinct; updateItem keeps
\* the id at every position, onDrop keeps the set of ids, addItemAt and
\* addStep add exactly one id that no item had, and executeDeleteItem only
\* removes ids
C38_StableIdsStep ==
  /\ DistinctIds(items) /\ DistinctIds(items')
  /\ (lastOp'.op = "updateItem" /\ lastOp'.applied) => IdSeq(items') = IdSeq(items)
  /\ (lastOp'.op = "onDrop" /\ lastOp'.applied) => IdsOf(items') = IdsOf(items)
  /\ (lastOp'.op \in { "addItemAt", "addStep" } /\ lastOp'.applied) =>
       /\ IdsOf(items) \subseteq IdsOf(items')
       /\ Cardinality(IdsOf(items') \ IdsOf(items)) = 1
       /\ \A p \in ProjectIds : (IdsOf(items') \ IdsOf(items)) \cap IdsOf(projects[p]) = {}
  /\ (lastOp'.op = "executeDeleteItem" /\ lastOp'.applied) =>
       /\ IdsOf(items') \subseteq IdsOf(items)
       /\ IdsOf(items') # IdsOf(items)

C38_StableIds == [][C38_StableIdsStep]_vars

\* a Task was inserted into project 1 and holds the one id that is new
C38_Witness ==
  /\ lastOp.op = "addItemAt" /\ lastOp.applied
  /\ currentProjectId = 1
  /\ Len(items) = Len(StoredItems1) + 1
  /\ IdsOf(items) \ IdsOf(StoredItems1) = { FirstFreeId }
  /\ DistinctIds(items)


\* ------------------------------------------------------------------------
\* C39
\* ------------------------------------------------------------------------
ListChangingOps == RecordingOps \cup { "undo", "redo" }

\* the ids a project was stored with: no item of another project has them
OwnIds(p) == IdsOf(StoredProjects[p])

\* list holds no item that project p was stored with
ForeignTo(list, p) == IdsOf(list) \cap OwnIds(p) = {}

\* C39: an edit, a structural operation, an undo or a redo leaves the lists
\* of the projects that are not active as they were, and every snapshot of
\* the history, so every list undo or redo can install, is a list of the
\* active project
C39_OtherProjectsStep ==
  /\ lastOp'.op \in ListChangingOps =>
       \A p \in ProjectIds \ { currentProjectId } : projects'[p] = projects[p]
  /\ currentProjectId' # NoProject =>
       \A p \in ProjectIds \ { currentProjectId' } :
         /\ \A k \in 1..Len(history') : ForeignTo(history'[k], p)
         /\ ForeignTo(items', p)

C39_OtherProjects == [][C39_OtherProjectsStep]_vars

\* project 1 was edited and closed, project 2 opened and edited: the undo
\* brings back project 2's stored list and leaves project 1 with its edit
C39_Witness ==
  /\ lastOp.op = "undo" /\ lastOp.applied
  /\ currentProjectId = 2
  /\ projects[1] # StoredItems1
  /\ items = StoredItems2
  /\ Len(history) = 2


\* ------------------------------------------------------------------------
\* C40
\* ------------------------------------------------------------------------
\* no two Tasks of list carry the same tId
DistinctTaskNumbers(list) ==
  \A i, j \in 1..Len(list) :
    (i # j /\ list[i].type = "T" /\ list[j].type = "T") => list[i].tId # list[j].tId

\* C40: in the list of the active project no two Tasks carry the same tId
C40_UniqueTaskNumbers == DistinctTaskNumbers(items)

\* the same for the lists in which every Task has a Step before it
C40_UniqueTaskNumbersUnderSteps ==
  (Len(items) > 0 /\ items[1].type = "S") => DistinctTaskNumbers(items)
====
